---- MODULE Spec2Model ----
(***************************************************************************)
(* A model of datasette/facets.py: the resolution of facet configuration   *)
(* (load_facet_configs) and the four facet strategies (ColumnFacet,        *)
(* ArrayFacet, DateFacet, ManyToManyFacet), each with suggest() and        *)
(* facet_results().                                                        *)
(*                                                                         *)
(* Python strings are sequences of one-character strings, so that          *)
(* startswith, slicing, formatting and JSON encoding are computed.         *)
(***************************************************************************)
EXTENDS Integers, Sequences, FiniteSets, TLC

VARIABLES
    pc,                 \* position of the operation under way
    strategy,           \* self.type of the facet class in use
    metadata_facets,    \* table_metadata["facets"]
    query_string,       \* request.query_string, as its ordered (key, value) pairs
    loaded,             \* what load_facet_configs returned or raised
    table,              \* self.table: the base table, or <<>> for None (a SQL query)
    ds,                 \* self.ds: the settings and the data its collaborators answer from
    idx,                \* index of the loop iteration under way
    outcomes,           \* what ds.execute answered, one entry per query issued
    facet_results,      \* facet_results of the facet_results() under way
    facets_timed_out,   \* facets_timed_out of the facet_results() under way
    suggested_facets,   \* suggested_facets of the suggest() under way
    returned            \* what the operation returned or raised

vars == <<pc, strategy, metadata_facets, query_string, loaded, table, ds, idx,
          outcomes, facet_results, facets_timed_out, suggested_facets, returned>>

----------------------------------------------------------------------------
(* Bounds of the model *)

MaxMeta == 2
MaxPairs == 3
MaxRequested == 2
ResultsFacetSize == 2
MaxRows == 3
MaxMiddleRows == 2
MaxFilters == 2
MaxFacetSize == 2
MaxOutgoing == 3

----------------------------------------------------------------------------
(* Strings *)

S_facet == <<"_", "f", "a", "c", "e", "t">>
S_facet_ == S_facet \o <<"_">>
S_facetx == S_facet \o <<"x">>
S_column == <<"c", "o", "l", "u", "m", "n">>
S_array == <<"a", "r", "r", "a", "y">>
S_date == <<"d", "a", "t", "e">>
S_m2m == <<"m", "2", "m">>
S_simple == <<"s", "i", "m", "p", "l", "e">>
S_table == <<"t", "a", "b", "l", "e">>
S_value == <<"v", "a", "l", "u", "e">>
S_through == <<"_", "t", "h", "r", "o", "u", "g", "h">>
S_None == <<"N", "o", "n", "e">>
S_arraycontains == <<"_", "_">> \o S_array \o <<"c", "o", "n", "t", "a", "i", "n", "s">>
S__date == <<"_", "_">> \o S_date

Quote == "\""
Backslash == "\\"

\* str.startswith
StartsWith(s, prefix) ==
    /\ Len(s) >= Len(prefix)
    /\ SubSeq(s, 1, Len(prefix)) = prefix

\* s[n:]
SliceFrom(s, n) == SubSeq(s, n + 1, Len(s))

\* x in list
InList(x, list) == \E k \in 1..Len(list) : list[k] = x

\* every sequence over S of length at most n
SeqsUpTo(S, n) == UNION {[1..k -> S] : k \in 0..n}

----------------------------------------------------------------------------
(* json.loads on the flat objects of strings a facet config or a _through  *)
(* token is: {"k":"v",...} with \" and \\ escapes.  Anything else is a     *)
(* decode error.                                                           *)

RECURSIVE ParseStr(_, _, _)
ParseStr(s, i, acc) ==
    IF i > Len(s) THEN [ok |-> FALSE, val |-> <<>>, next |-> i]
    ELSE IF s[i] = Quote THEN [ok |-> TRUE, val |-> acc, next |-> i + 1]
    ELSE IF s[i] = Backslash
         THEN IF i + 1 > Len(s)
              THEN [ok |-> FALSE, val |-> <<>>, next |-> i]
              ELSE ParseStr(s, i + 2, Append(acc, s[i + 1]))
    ELSE ParseStr(s, i + 1, Append(acc, s[i]))

\* dict[key] = value on a dict held as an ordered list of items
DictSet(d, key, value) ==
    IF \E k \in 1..Len(d) : d[k][1] = key
    THEN [k \in 1..Len(d) |-> IF d[k][1] = key THEN <<key, value>> ELSE d[k]]
    ELSE Append(d, <<key, value>>)

DictHas(d, key) == \E k \in 1..Len(d) : d[k][1] = key

DictGet(d, key) == d[CHOOSE k \in 1..Len(d) : d[k][1] = key][2]

RECURSIVE ParseMembers(_, _, _)
ParseMembers(s, i, obj) ==
    IF i > Len(s) \/ s[i] # Quote THEN [ok |-> FALSE, obj |-> <<>>]
    ELSE LET key == ParseStr(s, i + 1, <<>>) IN
         IF ~key.ok \/ key.next + 1 > Len(s) \/ s[key.next] # ":"
            \/ s[key.next + 1] # Quote
         THEN [ok |-> FALSE, obj |-> <<>>]
         ELSE LET val == ParseStr(s, key.next + 2, <<>>) IN
              IF ~val.ok \/ val.next > Len(s) THEN [ok |-> FALSE, obj |-> <<>>]
              ELSE IF s[val.next] = ","
                   THEN ParseMembers(s, val.next + 1, DictSet(obj, key.val, val.val))
              ELSE IF s[val.next] = "}" /\ val.next = Len(s)
                   THEN [ok |-> TRUE, obj |-> DictSet(obj, key.val, val.val)]
              ELSE [ok |-> FALSE, obj |-> <<>>]

json_loads(s) ==
    IF Len(s) < 2 \/ s[1] # "{" THEN [ok |-> FALSE, obj |-> <<>>]
    ELSE IF Len(s) = 2 /\ s[2] = "}" THEN [ok |-> TRUE, obj |-> <<>>]
    ELSE ParseMembers(s, 2, <<>>)

----------------------------------------------------------------------------
(* load_facet_configs *)

\* A metadata facet declaration is a bare string or a dict {type: config}
\* (an ordered list of items), whose config is a string or a dict.
MetaStr(name) == [kind |-> "str", s |-> name, items |-> <<>>]
MetaDict(items) == [kind |-> "dict", s |-> <<>>, items |-> items]

\* {"simple": value}
SimpleConfig(value) == <<<<S_simple, value>>>>

\* facet_configs.setdefault(type, []).append(entry)
SetDefaultAppend(facet_configs, type, entry) ==
    IF DictHas(facet_configs, type)
    THEN DictSet(facet_configs, type, Append(DictGet(facet_configs, type), entry))
    ELSE Append(facet_configs, <<type, <<entry>>>>)

\* The state of the function body: the dict built so far, the local variable
\* `type` (bound or not yet assigned), and the exception raised, if any.
LoadState(facet_configs, bound, type, error) ==
    [facet_configs |-> facet_configs, bound |-> bound, type |-> type,
     error |-> error]

\* metadata_config.items()[0]: dict.items() is a view, and a view is not
\* subscriptable.
ItemsFirst(items) == [ok |-> FALSE, item |-> <<>>]

\* One iteration of `for metadata_config in metadata_facets`.
MetadataStep(st, metadata_config) ==
    IF metadata_config.kind = "str"
    THEN LoadState(
            SetDefaultAppend(st.facet_configs, S_column,
                [source |-> "metadata", config |-> SimpleConfig(metadata_config.s)]),
            TRUE, S_column, "")
    ELSE IF Len(metadata_config.items) # 1
         THEN LoadState(st.facet_configs, st.bound, st.type, "AssertionError")
    ELSE LET first == ItemsFirst(metadata_config.items) IN
         IF ~first.ok
         THEN LoadState(st.facet_configs, st.bound, st.type, "TypeError")
         ELSE LET config == IF first.item[2].kind = "str"
                            THEN SimpleConfig(first.item[2].s)
                            ELSE first.item[2].items IN
              LoadState(
                SetDefaultAppend(st.facet_configs, first.item[1],
                    [source |-> "metadata", config |-> config]),
                TRUE, first.item[1], "")

RECURSIVE MetadataLoop(_, _, _)
MetadataLoop(st, metadata, k) ==
    IF k > Len(metadata) \/ st.error # "" THEN st
    ELSE MetadataLoop(MetadataStep(st, metadata[k]), metadata, k + 1)

\* urllib.parse.parse_qs(..., keep_blank_values=True): a dict from each key, in
\* the order of its first occurrence, to the list of its values.
RECURSIVE parse_qs_from(_, _, _)
parse_qs_from(pairs, k, d) ==
    IF k > Len(pairs) THEN d
    ELSE LET key == pairs[k][1] IN
         parse_qs_from(pairs, k + 1,
            IF DictHas(d, key)
            THEN DictSet(d, key, Append(DictGet(d, key), pairs[k][2]))
            ELSE Append(d, <<key, <<pairs[k][2]>>>>))

parse_qs(pairs) == parse_qs_from(pairs, 1, <<>>)

\* `for value in values` of one key, with `type` as the if/elif left it.
RECURSIVE ValuesLoop(_, _, _)
ValuesLoop(st, values, k) ==
    IF k > Len(values) \/ st.error # "" THEN st
    ELSE LET value == values[k]
             parsed == json_loads(value) IN
         IF StartsWith(value, <<"{">>) /\ ~parsed.ok
         THEN LoadState(st.facet_configs, st.bound, st.type, "JSONDecodeError")
         ELSE IF ~st.bound
         THEN LoadState(st.facet_configs, st.bound, st.type, "UnboundLocalError")
         ELSE ValuesLoop(
                LoadState(
                    SetDefaultAppend(st.facet_configs, st.type,
                        [source |-> "request",
                         config |-> IF StartsWith(value, <<"{">>)
                                    THEN parsed.obj ELSE SimpleConfig(value)]),
                    st.bound, st.type, ""),
                values, k + 1)

\* One iteration of `for key, values in qs_pairs.items()`.
RequestStep(st, key, values) ==
    IF ~StartsWith(key, S_facet) THEN st
    ELSE LET typed ==
                IF key = S_facet
                THEN LoadState(st.facet_configs, TRUE, S_column, "")
                ELSE IF StartsWith(key, S_facet_)
                THEN LoadState(st.facet_configs, TRUE,
                               SliceFrom(key, Len(S_facet_)), "")
                ELSE st
         IN ValuesLoop(typed, values, 1)

RECURSIVE RequestLoop(_, _, _)
RequestLoop(st, qs_pairs, k) ==
    IF k > Len(qs_pairs) \/ st.error # "" THEN st
    ELSE RequestLoop(RequestStep(st, qs_pairs[k][1], qs_pairs[k][2]), qs_pairs, k + 1)

\* load_facet_configs(request, table_metadata): the dict returned, or the
\* exception raised.
load_facet_configs(request, table_metadata) ==
    LET afterMetadata == MetadataLoop(LoadState(<<>>, FALSE, <<>>, ""),
                                      table_metadata, 1)
        final == RequestLoop(afterMetadata, parse_qs(request), 1)
    IN  [error |-> final.error,
         facet_configs |-> IF final.error = "" THEN final.facet_configs ELSE <<>>]

\* Facet.get_configs: configs.get(self.type) or []
get_configs(type, request, table_metadata) ==
    LET configs == load_facet_configs(request, table_metadata) IN
    [error |-> configs.error,
     configs |-> IF configs.error = "" /\ DictHas(configs.facet_configs, type)
                 THEN DictGet(configs.facet_configs, type) ELSE <<>>]

\* Facet.get_querystring_pairs: urllib.parse.parse_qsl keeps the pairs in order
get_querystring_pairs(request) == request

----------------------------------------------------------------------------
(* Values of SQLite rows, and Python's str() of them *)

VNull == [t |-> "null", v |-> 0]
VInt(n) == [t |-> "int", v |-> n]
VText(s) == [t |-> "text", v |-> s]
VArray(elems) == [t |-> "array", v |-> elems]

DigitChar(d) == <<"0", "1", "2", "3", "4", "5", "6", "7", "8", "9">>[d + 1]

RECURSIVE Digits(_)
Digits(n) == IF n < 10 THEN <<DigitChar(n)>>
             ELSE Digits(n \div 10) \o <<DigitChar(n % 10)>>

\* str(row["value"]): the value of a result row is None, an int or a str
str(value) ==
    IF value.t = "null" THEN S_None
    ELSE IF value.t = "int"
         THEN (IF value.v < 0 THEN <<"-">> \o Digits(-value.v) ELSE Digits(value.v))
    ELSE value.v

IsDigit(c) == c \in {"0", "1", "2", "3", "4", "5", "6", "7", "8", "9"}

\* SQLite's date(x) on a text value: the calendar date of a YYYY-MM-DD or
\* YYYY-MM-DD HH:MM timestamp, NULL for NULL and for text that is no date.
date(value) ==
    IF value.t = "text" /\ Len(value.v) >= 10
       /\ \A k \in {1, 2, 3, 4, 6, 7, 9, 10} : IsDigit(value.v[k])
       /\ value.v[5] = "-" /\ value.v[8] = "-"
    THEN VText(SubSeq(value.v, 1, 10))
    ELSE VNull

----------------------------------------------------------------------------
(* The facet queries, answered from the rows of ds *)

\* the concatenation of a sequence of sequences
RECURSIVE Flatten(_)
Flatten(seqs) == IF seqs = <<>> THEN <<>> ELSE Head(seqs) \o Flatten(Tail(seqs))

NotNull(value) == value.t # "null"

\* json_each(x): the elements of an array, the value itself for a number, no
\* row for NULL.  Text that is not JSON is a malformed-JSON error.
json_each(value) ==
    IF value.t = "array" THEN value.v
    ELSE IF value.t = "int" THEN <<value>>
    ELSE <<>>

\* The value each joined row is grouped by, before grouping:
\*   column: {col} where {col} is not null
\*   date:   date({col}) where date({col}) is not null
\*   array:  j.value of join json_each({col}) j
ColumnGroupedValues(rows, column) ==
    SelectSeq([k \in 1..Len(rows) |-> rows[k][column]], NotNull)

DateGroupedValues(rows, column) ==
    SelectSeq([k \in 1..Len(rows) |-> date(rows[k][column])], NotNull)

ArrayGroupedValues(rows, column) ==
    Flatten([k \in 1..Len(rows) |-> json_each(rows[k][column])])

\* count(*) of one group
CountStar(values, value) == Cardinality({k \in 1..Len(values) : values[k] = value})

\* The many-to-many query: the rows of the middle table whose column_to_table
\* is a {table_pk} of the base query, grouped by column_to_destination, with
\* count(distinct column_to_table).
M2MJoined(rows, middle_rows, column_to_table, table_pk, column_to_destination) ==
    LET pks == {rows[k][table_pk] : k \in 1..Len(rows)}
        Kept(r) == NotNull(r[column_to_table]) /\ r[column_to_table] \in pks
    IN  SelectSeq(middle_rows, Kept)

CountDistinct(joined, column_to_table, column_to_destination, value) ==
    Cardinality({joined[k][column_to_table] :
                    k \in {n \in 1..Len(joined) : joined[n][column_to_destination] = value}})

\* group by ... order by count desc limit {limit}: every order of the groups
\* in which the counts do not increase, cut at the limit.  `count` maps each
\* group to its count.
OrderedLimited(count, limit) ==
    LET groups == DOMAIN count
        n == Cardinality(groups)
        m == IF n < limit THEN n ELSE limit
        orders == {f \in [1..n -> groups] :
                     /\ \A a, b \in 1..n : a # b => f[a] # f[b]
                     /\ \A a \in 1..n : a < n => count[f[a]] >= count[f[a + 1]]}
    IN  {[k \in 1..m |-> [value |-> f[k], count |-> count[f[k]]]] : f \in orders}

SeqToSet(seq) == {seq[k] : k \in 1..Len(seq)}

\* Which limit the facet queries ask for: facet_size + 1
FacetLimitNoExtra(facet_size) == facet_size
FacetLimit(facet_size) == facet_size + 1

\* The result sets a facet query of column/array/date may return.
FacetQueryRows(type, rows, column, facet_size) ==
    LET values == IF type = S_column THEN ColumnGroupedValues(rows, column)
                  ELSE IF type = S_date THEN DateGroupedValues(rows, column)
                  ELSE ArrayGroupedValues(rows, column)
    IN  OrderedLimited([value \in SeqToSet(values) |-> CountStar(values, value)],
                       FacetLimit(facet_size))

\* The result sets the many-to-many facet query may return.
M2MQueryRows(rows, middle_rows, to_table, table_pk, to_destination, facet_size) ==
    LET joined == M2MJoined(rows, middle_rows, to_table, table_pk, to_destination)
    IN  OrderedLimited([value \in {joined[k][to_destination] : k \in 1..Len(joined)} |->
                            CountDistinct(joined, to_table, to_destination, value)],
                       FacetLimit(facet_size))

\* Whether the query fails with an SQL error other than a timeout: it names a
\* column the base query does not have, or json_each meets text that is not JSON.
FacetQueryFails(type, columns, rows, column) ==
    IF ~InList(column, columns) THEN TRUE
    ELSE type = S_array /\ \E k \in 1..Len(rows) : rows[k][column].t = "text"

\* A query over the column fails for another reason (ds.broken holds the
\* columns whose evaluation raises an SQL error, such as a failing expression
\* of the base query).
ProbeFails(type, columns, rows, broken, column) ==
    IF column \in broken THEN TRUE ELSE FacetQueryFails(type, columns, rows, column)

----------------------------------------------------------------------------
(* URLs, labels and the _through token *)

\* path_with_added_args(request, {key: value}): the URL of the current pairs
\* with one more pair, held as its list of pairs
path_with_added_args(request, key, value) == Append(request, <<key, value>>)

\* path_with_removed_args(request, {key: value}): the URL of the current pairs
\* without the pairs equal to (key, value)
path_with_removed_args(request, key, value) ==
    LET Kept(pair) == pair # <<key, value>> IN SelectSeq(request, Kept)

\* ds.expand_foreign_keys(database, table, column, values): a dict from
\* (column, value) to the label of each value that has one
expand_foreign_keys(labels, column, values) ==
    LET Wanted(item) == item[1][1] = column /\ InList(item[1][2], values)
    IN  SelectSeq(labels, Wanted)

\* expanded.get((column, value), value)
LabelOf(expanded, column, value) ==
    IF DictHas(expanded, <<column, value>>)
    THEN DictGet(expanded, <<column, value>>) ELSE value

RECURSIVE JsonEscape(_)
JsonEscape(s) ==
    IF s = <<>> THEN <<>>
    ELSE (IF Head(s) = Quote \/ Head(s) = Backslash
          THEN <<Backslash, Head(s)>> ELSE <<Head(s)>>) \o JsonEscape(Tail(s))

JsonString(s) == <<Quote>> \o JsonEscape(s) \o <<Quote>>

\* json.dumps(items, separators=(",", ":"), sort_keys=True) of an object whose
\* items are given in the order of their keys
RECURSIVE JsonMembers(_)
JsonMembers(items) ==
    IF items = <<>> THEN <<>>
    ELSE JsonString(Head(items)[1]) \o <<":">> \o JsonString(Head(items)[2])
         \o (IF Len(items) > 1 THEN <<",">> ELSE <<>>) \o JsonMembers(Tail(items))

json_dumps(items) == <<"{">> \o JsonMembers(items) \o <<"}">>

\* The value the token carries for a row
ThroughValue(value) == str(value)

\* through = json.dumps({"table": ..., "column": ..., "value": str(row["value"])}, ...):
\* the keys sorted are column, table, value
Through(middle_table, column_to_destination, value) ==
    json_dumps(<< <<S_column, column_to_destination>>,
                  <<S_table, middle_table>>,
                  <<S_value, ThroughValue(value)>> >>)

----------------------------------------------------------------------------
(* The shaping of result rows into facet entries *)

\* dict(pairs).get(key): the last value of the key, or None
ArgsGet(pairs, key) ==
    IF \E k \in 1..Len(pairs) : pairs[k][1] = key
    THEN VText(pairs[CHOOSE k \in 1..Len(pairs) :
                        /\ pairs[k][1] = key
                        /\ \A n \in (k + 1)..Len(pairs) : pairs[n][1] # key][2])
    ELSE VNull

\* The key and the value of the filter pair that selects a row's value
SelectionKey(type, column) ==
    IF type = S_column THEN column
    ELSE IF type = S_array THEN column \o S_arraycontains
    ELSE IF type = S_date THEN column \o S__date
    ELSE S_through

\* `selected` of ColumnFacet: (column, str(row["value"])) in qs_pairs
ColumnSelected(pairs, column, value) == InList(<<column, str(value)>>, pairs)

\* `selected` of ArrayFacet: ("{}__arraycontains".format(column), value) in pairs
ArraySelected(pairs, column, value) ==
    InList(<<column \o S_arraycontains, str(value)>>, pairs)

\* `selected` of DateFacet: str(args.get("{}__date".format(column))) == str(row["value"])
DateSelected(pairs, column, value) ==
    str(ArgsGet(pairs, column \o S__date)) = str(value)

\* `selected` of ManyToManyFacet: ("_through", through) in args
M2MSelected(pairs, through) == <<S_through, through>> \in SeqToSet(pairs)

\* One entry of facet_results_values.  `m2m` holds middle_table and
\* column_to_destination for the many-to-many facet.
FacetEntry(type, request, column, m2m, expanded, row) ==
    LET pairs == get_querystring_pairs(request)
        through == Through(m2m.middle_table, m2m.column_to_destination, row.value)
        selected ==
            IF type = S_column THEN ColumnSelected(pairs, column, row.value)
            ELSE IF type = S_array THEN ArraySelected(pairs, column, row.value)
            ELSE IF type = S_date THEN DateSelected(pairs, column, row.value)
            ELSE M2MSelected(pairs, through)
        key == SelectionKey(type, column)
        pairValue == IF type = S_m2m THEN through ELSE str(row.value)
    IN  [value |-> IF type = S_array THEN VText(str(row.value)) ELSE row.value,
         label |-> IF type = S_column THEN LabelOf(expanded, column, row.value)
                   ELSE IF type = S_m2m
                        THEN LabelOf(expanded, m2m.column_to_destination, row.value)
                   ELSE IF type = S_array THEN VText(str(row.value))
                   ELSE row.value,
         count |-> row.count,
         toggle_url |-> IF selected
                        THEN path_with_removed_args(request, key, pairValue)
                        ELSE path_with_added_args(request, key, pairValue),
         selected |-> selected]

\* "truncated": len(facet_rows_results) > facet_size
Truncated(rows, facet_size) == Len(rows) > facet_size

\* facet_rows_results.rows[:facet_size]
FacetRows(rows, facet_size) ==
    SubSeq(rows, 1, IF Len(rows) < facet_size THEN Len(rows) ELSE facet_size)

\* The query-string key that asks for a facet of a type
FacetKey(type) == IF type = S_column THEN S_facet ELSE S_facet_ \o type

\* "hideable": source != "metadata"
Hideable(source) == source # "metadata"

NoM2M == [middle_table |-> <<>>, column_to_destination |-> <<>>]

\* facet_results[column] once its entries are appended
FacetResult(type, request, self_table, labels, facet_size, source, column, m2m, rows) ==
    LET facet_rows == FacetRows(rows, facet_size)
        values == [k \in 1..Len(facet_rows) |-> facet_rows[k].value]
        expanded ==
            IF type = S_m2m
            THEN expand_foreign_keys(labels, m2m.column_to_destination, values)
            ELSE IF type = S_column /\ self_table # <<>>
                 THEN expand_foreign_keys(labels, column, values)
            ELSE <<>>
    IN  [name |-> column,
         type |-> type,
         hideable |-> Hideable(source),
         toggle_url |-> path_with_removed_args(request, FacetKey(type), column),
         results |-> [k \in 1..Len(facet_rows) |->
                        FacetEntry(type, request, column, m2m, expanded, facet_rows[k])],
         truncated |-> Truncated(rows, facet_size)]

----------------------------------------------------------------------------
(* The foreign keys of the many-to-many facet *)

Edge(other_table, column, other_column) ==
    [other_table |-> other_table, column |-> column, other_column |-> other_column]

\* Lines 541-558: the first incoming table with exactly two outgoing keys, one
\* of them to the destination table; 0 when there is none.
MiddleIndex(all_foreign_keys, incoming, destination_table) ==
    LET Qualifies(k) ==
            LET outgoing == all_foreign_keys[incoming[k].other_table].outgoing IN
            /\ \E n \in 1..Len(outgoing) : outgoing[n].other_table = destination_table
            /\ Len(outgoing) = 2
    IN  IF \E k \in 1..Len(incoming) : Qualifies(k)
        THEN CHOOSE k \in 1..Len(incoming) :
                Qualifies(k) /\ \A n \in 1..(k - 1) : ~Qualifies(n)
        ELSE 0

\* Lines 575-583: the three columns, <<>> for None; a later key of the same
\* kind overwrites an earlier one.
RECURSIVE MiddleColumns(_, _, _, _)
MiddleColumns(fks, self_table, destination_table, found) ==
    IF fks = <<>> THEN found
    ELSE LET fk == Head(fks) IN
         MiddleColumns(Tail(fks), self_table, destination_table,
            IF fk.other_table = self_table
            THEN [found EXCEPT !.table_pk = fk.other_column,
                               !.column_to_table = fk.column]
            ELSE IF fk.other_table = destination_table
                 THEN [found EXCEPT !.column_to_destination = fk.column]
            ELSE found)

NoColumns == [column_to_table |-> <<>>, table_pk |-> <<>>, column_to_destination |-> <<>>]

\* assert all((column_to_table, table_pk, column_to_destination))
ColumnsAsserted(found) ==
    found.column_to_table # <<>> /\ found.table_pk # <<>>
    /\ found.column_to_destination # <<>>

----------------------------------------------------------------------------
(* The resolution of facet configs on its own *)

ColA == <<"a">>
ColB == <<"b">>
JsonBad == <<"{">>
JsonEmpty == <<"{", "}">>
JsonColumn(name) == <<"{", Quote>> \o S_column \o <<Quote, ":", Quote>> \o name \o <<Quote, "}">>
JsonColA == JsonColumn(ColA)

ConfigKeys == {S_facet, S_facet_ \o S_date, S_facet_ \o S_column, S_facetx, ColA}
ConfigValues == {ColA, JsonColA, JsonBad}
ConfigPairs == ConfigKeys \X ConfigValues

MetadataDecls ==
    { MetaStr(ColA),
      MetaDict(<<<<S_date, MetaStr(ColB)>>>>),
      MetaDict(<<<<S_column, MetaDict(<<<<S_column, ColB>>>>)>>>>),
      MetaDict(<<<<S_date, MetaStr(ColA)>>, <<S_array, MetaStr(ColB)>>>>) }

Idle ==
    /\ table = <<>>
    /\ ds = <<>>
    /\ idx = 0
    /\ outcomes = <<>>
    /\ facet_results = <<>>
    /\ facets_timed_out = <<>>
    /\ suggested_facets = <<>>
    /\ returned = <<>>

InitConfig ==
    /\ pc = "start"
    /\ strategy = S_column
    /\ metadata_facets \in SeqsUpTo(MetadataDecls, MaxMeta)
    /\ query_string \in SeqsUpTo(ConfigPairs, MaxPairs)
    /\ loaded = [error |-> "", facet_configs |-> <<>>]
    /\ Idle

LoadFacetConfigs ==
    /\ pc = "start"
    /\ loaded' = load_facet_configs(query_string, metadata_facets)
    /\ pc' = "loaded"
    /\ UNCHANGED <<strategy, metadata_facets, query_string, table, ds, idx, outcomes,
                   facet_results, facets_timed_out, suggested_facets, returned>>

NextConfig == LoadFacetConfigs

SpecConfig == InitConfig /\ [][NextConfig]_vars


----------------------------------------------------------------------------
(* facet_results() of the four strategies *)

ColId == <<"i", "d">>
ColC == <<"c">>
T_base == <<"t">>
T_middle == <<"j">>
T_destination == <<"d">>
T_other == <<"n">>
ColX == <<"x">>
ColY == <<"y">>
Date1 == <<"2", "0", "1", "9", "-", "0", "1", "-", "0", "1">>
Date2 == <<"2", "0", "1", "9", "-", "0", "1", "-", "0", "2">>

Row(id, a, b) == (ColId :> id) @@ (ColA :> a) @@ (ColB :> b)
MiddleRow(x, y) == (ColX :> x) @@ (ColY :> y)

\* The foreign keys of a database with one middle table j(x -> t.id, y -> d.id)
ForeignKeys ==
    (T_base :> [incoming |-> <<Edge(T_middle, ColId, ColX)>>, outgoing |-> <<>>])
    @@ (T_destination :> [incoming |-> <<Edge(T_middle, ColId, ColY)>>, outgoing |-> <<>>])
    @@ (T_other :> [incoming |-> <<>>, outgoing |-> <<>>])
    @@ (T_middle :> [incoming |-> <<>>,
                     outgoing |-> <<Edge(T_base, ColX, ColId),
                                    Edge(T_destination, ColY, ColId)>>])

\* The rows the facets of each type are computed from: three base rows whose
\* columns a and b hold what the type facets, and the rows of the middle table.
ResultsRows(type) ==
    IF type = S_date
    THEN <<Row(VInt(1), VText(Date1), VText(Date2 \o <<" ", "1", "0", ":", "0", "0">>)),
           Row(VInt(2), VText(Date1), VNull),
           Row(VInt(3), VText(Date2), VText(Date1))>>
    ELSE IF type = S_array
    THEN <<Row(VInt(1), VArray(<<VInt(1), VInt(2)>>), VArray(<<VText(ColX)>>)),
           Row(VInt(2), VArray(<<VInt(1)>>), VNull),
           Row(VInt(3), VArray(<<VInt(1), VInt(3)>>), VArray(<<VText(ColX), VText(ColY)>>))>>
    ELSE <<Row(VInt(1), VInt(1), VText(ColX)),
           Row(VInt(2), VInt(1), VNull),
           Row(VInt(3), VInt(2), VText(ColY))>>

ResultsDs(type) ==
    [facet_size |-> ResultsFacetSize,
     broken |-> {},
     columns |-> <<ColId, ColA, ColB>>,
     rows |-> ResultsRows(type),
     all_foreign_keys |-> ForeignKeys,
     middle_rows |-> (T_middle :> <<MiddleRow(VInt(1), VInt(7)), MiddleRow(VInt(2), VInt(7)),
                                    MiddleRow(VInt(3), VInt(8)), MiddleRow(VInt(9), VInt(8))>>),
     labels |-> << <<<<ColA, VInt(1)>>, VText(ColX)>>, <<<<ColY, VInt(7)>>, VText(ColY)>> >>]

\* What a request asks a facet of: for column, array and date two columns of the
\* base query and one it does not have, bare or structured; for m2m the
\* destination table, the base table itself and a table with no middle table.
RequestedNames(type) ==
    IF type = S_m2m THEN {T_destination, T_base, T_other, JsonColumn(T_destination)}
    ELSE {ColA, ColB, ColC, JsonColA, JsonEmpty}

ResultsMetadata ==
    { <<>>, <<MetaStr(ColA)>>, <<MetaStr(ColB), MetaStr(ColA)>>,
      <<MetaDict(<<<<S_date, MetaStr(ColA)>>>>)>> }

Return(results, timed_out) ==
    [kind |-> "return", results |-> results, timed_out |-> timed_out, error |-> ""]
Raise(error) == [kind |-> "raise", results |-> <<>>, timed_out |-> <<>>, error |-> error]
NotReturned == [kind |-> "", results |-> <<>>, timed_out |-> <<>>, error |-> ""]

InitResults ==
    /\ pc = "start"
    /\ strategy \in {S_column, S_array, S_date, S_m2m}
    /\ table \in {T_base, <<>>}
    /\ metadata_facets \in ResultsMetadata
    /\ query_string \in SeqsUpTo({FacetKey(strategy)} \X RequestedNames(strategy),
                                 MaxRequested)
    /\ ds = ResultsDs(strategy)
    /\ loaded = [error |-> "", configs |-> <<>>]
    /\ idx = 0
    /\ outcomes = <<>>
    /\ facet_results = <<>>
    /\ facets_timed_out = <<>>
    /\ suggested_facets = <<>>
    /\ returned = NotReturned

Inputs == <<strategy, metadata_facets, query_string, table, ds>>

\* ManyToManyFacet, lines 531-532: `if not all_foreign_keys.get(self.table)`
NoForeignKeys == table \notin DOMAIN ds.all_foreign_keys

\* Lines 524-534 (186-189 for the other strategies): up to get_configs()
FacetResultsBegin ==
    /\ pc = "start"
    /\ IF strategy = S_m2m /\ NoForeignKeys
       THEN /\ returned' = Return(<<>>, <<>>)
            /\ pc' = "done"
            /\ UNCHANGED <<loaded, idx>>
       ELSE LET got == get_configs(strategy, query_string, metadata_facets) IN
            /\ loaded' = got
            /\ IF got.error # ""
               THEN returned' = Raise(got.error) /\ pc' = "done" /\ UNCHANGED idx
               ELSE returned' = returned /\ pc' = "loop" /\ idx' = 1
    /\ UNCHANGED <<Inputs, outcomes, facet_results, facets_timed_out, suggested_facets>>

InLoop == pc = "loop" /\ idx \in 1..Len(loaded.configs)

Config == loaded.configs[idx].config
Source == loaded.configs[idx].source

\* config.get("column") or config["simple"]
ConfigHasName(config) ==
    \/ DictHas(config, S_column) /\ DictGet(config, S_column) # <<>>
    \/ DictHas(config, S_simple)
ConfigName(config) ==
    IF DictHas(config, S_column) /\ DictGet(config, S_column) # <<>>
    THEN DictGet(config, S_column) ELSE DictGet(config, S_simple)

Column == ConfigName(Config)

\* The middle table and its columns for the destination table of this config
Incoming == ds.all_foreign_keys[table].incoming
MiddleFound == MiddleIndex(ds.all_foreign_keys, Incoming, Column) # 0
MiddleTable == Incoming[MiddleIndex(ds.all_foreign_keys, Incoming, Column)].other_table
MiddleFks == ds.all_foreign_keys[MiddleTable].outgoing
Columns == MiddleColumns(MiddleFks, table, Column, NoColumns)

\* The query of this iteration can be issued
QueryReady ==
    /\ InLoop
    /\ ConfigHasName(Config)
    /\ strategy = S_m2m => MiddleFound /\ ColumnsAsserted(Columns)

Finish(result) ==
    /\ returned' = result
    /\ pc' = "done"
    /\ UNCHANGED <<Inputs, loaded, idx, outcomes, facet_results, facets_timed_out,
                   suggested_facets>>

\* config["simple"] of a config that has neither key
ConfigKeyError ==
    /\ InLoop
    /\ ~ConfigHasName(Config)
    /\ Finish(Raise("KeyError"))

\* Lines 559-560: `if middle_table is None or fks is None: return [], []`
NoMiddleTable ==
    /\ InLoop
    /\ ConfigHasName(Config)
    /\ strategy = S_m2m
    /\ ~MiddleFound
    /\ Finish(Return(<<>>, <<>>))

\* Line 584: the assertion fails
AssertionFails ==
    /\ InLoop
    /\ ConfigHasName(Config)
    /\ strategy = S_m2m
    /\ MiddleFound
    /\ ~ColumnsAsserted(Columns)
    /\ Finish(Raise("AssertionError"))

QueryFails ==
    strategy # S_m2m /\ FacetQueryFails(strategy, ds.columns, ds.rows, Column)

PossibleRows ==
    IF strategy = S_m2m
    THEN M2MQueryRows(ds.rows, ds.middle_rows[MiddleTable], Columns.column_to_table,
                      Columns.table_pk, Columns.column_to_destination, ds.facet_size)
    ELSE FacetQueryRows(strategy, ds.rows, Column, ds.facet_size)

\* Which outcomes of ds.execute the `except` clause of facet_results catches
CaughtAnyError(kind) == kind \in {"interrupted", "error"}
Caught(kind) == kind = "interrupted"

\* facet_results[column] = {...}
StoreResultOnly(results, column, result) == <<<<column, result>>>>
StoreResult(results, column, result) == DictSet(results, column, result)

\* ds.execute returns rows: the body of the try block
QueryReturnsRows ==
    /\ QueryReady
    /\ ~QueryFails
    /\ \E rows \in PossibleRows :
        /\ outcomes' = Append(outcomes, [column |-> Column, kind |-> "rows", rows |-> rows])
        /\ facet_results' = StoreResult(facet_results, Column,
              FacetResult(strategy, query_string, table, ds.labels, ds.facet_size, Source,
                          Column,
                          IF strategy = S_m2m
                          THEN [middle_table |-> MiddleTable,
                                column_to_destination |-> Columns.column_to_destination]
                          ELSE NoM2M,
                          rows))
    /\ idx' = idx + 1
    /\ UNCHANGED <<Inputs, pc, loaded, facets_timed_out, suggested_facets, returned>>

\* ds.execute raises: QueryInterrupted on a timeout, sqlite3.OperationalError
\* on an SQL error
QueryRaises(kind) ==
    /\ QueryReady
    /\ IF kind = "error" THEN QueryFails ELSE ~QueryFails
    /\ outcomes' = Append(outcomes, [column |-> Column, kind |-> kind, rows |-> <<>>])
    /\ IF Caught(kind)
       THEN /\ facets_timed_out' = Append(facets_timed_out, Column)
            /\ idx' = idx + 1
            /\ UNCHANGED <<pc, returned>>
       ELSE /\ returned' = Raise("OperationalError")
            /\ pc' = "done"
            /\ UNCHANGED <<facets_timed_out, idx>>
    /\ UNCHANGED <<Inputs, loaded, facet_results, suggested_facets>>

QueryInterrupted == QueryRaises("interrupted")
QueryError == QueryRaises("error")

\* `return facet_results, facets_timed_out`
FacetResultsReturn ==
    /\ pc = "loop"
    /\ idx > Len(loaded.configs)
    /\ Finish(Return(facet_results, facets_timed_out))

NextResults ==
    \/ FacetResultsBegin
    \/ ConfigKeyError
    \/ NoMiddleTable
    \/ AssertionFails
    \/ QueryReturnsRows
    \/ QueryInterrupted
    \/ QueryError
    \/ FacetResultsReturn

SpecResults == InitResults /\ [][NextResults]_vars

----------------------------------------------------------------------------
(* suggest() of the four strategies *)

Suggestion(name, type, request) ==
    [name |-> name, type |-> type,
     toggle_url |-> path_with_added_args(request, FacetKey(type), name)]

\* already_enabled = [c["config"]["simple"] for c in self.get_configs()]
AlreadyEnabledFails(configs) ==
    \E k \in 1..Len(configs) : ~DictHas(configs[k].config, S_simple)
AlreadyEnabled(configs) ==
    [k \in 1..Len(configs) |-> DictGet(configs[k].config, S_simple)]

\* ColumnFacet.suggest: select distinct {column} ... where {column} is not null
\* limit {facet_size + 1}
ColumnProbe(rows, column, facet_size) ==
    LET n == Cardinality(SeqToSet(ColumnGroupedValues(rows, column))) IN
    IF n < FacetLimit(facet_size) THEN n ELSE FacetLimit(facet_size)

\* Lines 163-168
ColumnSuggested(num_distinct_values, facet_size, row_count) ==
    /\ num_distinct_values # 0
    /\ num_distinct_values > 1
    /\ num_distinct_values <= facet_size
    /\ num_distinct_values < row_count

\* json_type(x): "array", "integer", or NULL for NULL
json_type(value) ==
    IF value.t = "array" THEN VText(S_array)
    ELSE IF value.t = "int" THEN VText(<<"i", "n", "t", "e", "g", "e", "r">>)
    ELSE VNull

\* ArrayFacet.suggest: select distinct json_type({column}) from ({sql}), whose
\* rows come in any order
ArrayProbe(rows, column) ==
    LET kinds == {json_type(rows[k][column]) : k \in 1..Len(rows)}
        n == Cardinality(kinds)
    IN  {f \in [1..n -> kinds] : \A a, b \in 1..n : a # b => f[a] # f[b]}

\* types in (("array",), ("array", None))
ArraySuggested(types) ==
    types \in {<<VText(S_array)>>, <<VText(S_array), VNull>>}

DateSampleLimit == 100

\* {column} glob "????-??-*"
GlobsDate(value) ==
    value.t = "text" /\ Len(value.v) >= 8 /\ value.v[5] = "-" /\ value.v[8] = "-"

\* DateFacet.suggest: select date({column}) ... where {column} glob ... limit 100
DateProbe(rows, column) ==
    LET values == [k \in 1..Len(rows) |-> rows[k][column]]
        dates == LET globbed == SelectSeq(values, GlobsDate) IN
                 [k \in 1..Len(globbed) |-> date(globbed[k])]
    IN  SubSeq(dates, 1, IF Len(dates) < DateSampleLimit THEN Len(dates)
                         ELSE DateSampleLimit)

\* any(values)
DateSuggested(values) ==
    \E k \in 1..Len(values) : values[k].t # "null" /\ values[k].v # <<>>

\* ManyToManyFacet.suggest, lines 496-521: the loop over the incoming keys
RECURSIVE M2MSuggestLoop(_, _, _, _, _, _)
M2MSuggestLoop(all_foreign_keys, self_table, incoming, request, k, suggested) ==
    IF k > Len(incoming) THEN Return(suggested, <<>>)
    ELSE LET outgoing == all_foreign_keys[incoming[k].other_table].outgoing
             NotBase(t) == t.other_table # self_table
             others == SelectSeq(outgoing, NotBase)
         IN  IF Len(outgoing) # 2
             THEN M2MSuggestLoop(all_foreign_keys, self_table, incoming, request, k + 1,
                                 suggested)
             ELSE IF others = <<>> THEN Raise("IndexError")
             ELSE IF <<FacetKey(S_m2m), others[1].other_table>>
                        \in SeqToSet(get_querystring_pairs(request))
             THEN M2MSuggestLoop(all_foreign_keys, self_table, incoming, request, k + 1,
                                 suggested)
             ELSE M2MSuggestLoop(all_foreign_keys, self_table, incoming, request, k + 1,
                    Append(suggested, Suggestion(others[1].other_table, S_m2m, request)))

MaxBroken == 1

InitSuggest ==
    /\ pc = "start"
    /\ strategy \in {S_column, S_array, S_date, S_m2m}
    /\ table \in {T_base, <<>>}
    /\ metadata_facets \in ResultsMetadata
    /\ query_string \in SeqsUpTo({FacetKey(strategy)} \X RequestedNames(strategy),
                                 MaxRequested)
    /\ \E broken \in {b \in SUBSET {ColA, ColB} : Cardinality(b) <= MaxBroken} :
            ds = [ResultsDs(strategy) EXCEPT !.broken = broken]
    /\ loaded = [error |-> "", configs |-> <<>>]
    /\ idx = 0
    /\ outcomes = <<>>
    /\ facet_results = <<>>
    /\ facets_timed_out = <<>>
    /\ suggested_facets = <<>>
    /\ returned = NotReturned

SuggestFinish(result) ==
    /\ returned' = result
    /\ pc' = "done"
    /\ UNCHANGED <<Inputs, loaded, idx, outcomes, facet_results, facets_timed_out,
                   suggested_facets>>

\* ManyToManyFacet.suggest
M2MSuggest ==
    /\ pc = "start"
    /\ strategy = S_m2m
    /\ SuggestFinish(IF NoForeignKeys THEN Return(<<>>, <<>>)
                     ELSE M2MSuggestLoop(ds.all_foreign_keys, table, Incoming,
                                         query_string, 1, <<>>))

\* suggest of column, array and date, up to the loop over the columns
SuggestBegin ==
    /\ pc = "start"
    /\ strategy # S_m2m
    /\ LET got == get_configs(strategy, query_string, metadata_facets) IN
        /\ loaded' = got
        /\ IF got.error # ""
           THEN returned' = Raise(got.error) /\ pc' = "done" /\ UNCHANGED idx
           ELSE IF AlreadyEnabledFails(got.configs)
           THEN returned' = Raise("KeyError") /\ pc' = "done" /\ UNCHANGED idx
           ELSE returned' = returned /\ pc' = "probe" /\ idx' = 1
    /\ UNCHANGED <<Inputs, outcomes, facet_results, facets_timed_out, suggested_facets>>

InProbes == pc = "probe" /\ idx \in 1..Len(ds.columns)

ProbedColumn == ds.columns[idx]

Enabled == InList(ProbedColumn, AlreadyEnabled(loaded.configs))

\* `if column in already_enabled: continue`
SkipEnabled ==
    /\ InProbes
    /\ Enabled
    /\ idx' = idx + 1
    /\ UNCHANGED <<Inputs, pc, loaded, outcomes, facet_results, facets_timed_out,
                   suggested_facets, returned>>

ProbeBreaks == ProbeFails(strategy, ds.columns, ds.rows, ds.broken, ProbedColumn)

\* What the probe of the column answers, and whether it makes a suggestion
ProbeAnswers ==
    IF strategy = S_column
    THEN {ColumnProbe(ds.rows, ProbedColumn, ds.facet_size)}
    ELSE IF strategy = S_array THEN ArrayProbe(ds.rows, ProbedColumn)
    ELSE {DateProbe(ds.rows, ProbedColumn)}

Suggested(answer) ==
    IF strategy = S_column THEN ColumnSuggested(answer, ds.facet_size, Len(ds.rows))
    ELSE IF strategy = S_array THEN ArraySuggested(answer)
    ELSE DateSuggested(answer)

\* The probe returns rows
ProbeReturnsRows ==
    /\ InProbes
    /\ ~Enabled
    /\ ~ProbeBreaks
    /\ \E answer \in ProbeAnswers :
        /\ outcomes' = Append(outcomes,
                [column |-> ProbedColumn, kind |-> "rows", rows |-> answer])
        /\ suggested_facets' =
                IF Suggested(answer)
                THEN Append(suggested_facets,
                            Suggestion(ProbedColumn,
                                       IF strategy = S_column THEN S_column ELSE strategy,
                                       query_string))
                ELSE suggested_facets
    /\ idx' = idx + 1
    /\ UNCHANGED <<Inputs, pc, loaded, facet_results, facets_timed_out, returned>>

\* Which outcomes of ds.execute the `except` clause of suggest catches:
\* QueryInterrupted in ColumnFacet, (QueryInterrupted, sqlite3.OperationalError)
\* in ArrayFacet and DateFacet
SuggestCaught(type, kind) ==
    IF type = S_column THEN kind = "interrupted"
    ELSE kind \in {"interrupted", "error"}

\* The probe raises
ProbeRaises(kind) ==
    /\ InProbes
    /\ ~Enabled
    /\ IF kind = "error" THEN ProbeBreaks ELSE ~ProbeBreaks
    /\ outcomes' = Append(outcomes, [column |-> ProbedColumn, kind |-> kind, rows |-> <<>>])
    /\ IF SuggestCaught(strategy, kind)
       THEN idx' = idx + 1 /\ UNCHANGED <<pc, returned>>
       ELSE returned' = Raise("OperationalError") /\ pc' = "done" /\ UNCHANGED idx
    /\ UNCHANGED <<Inputs, loaded, facet_results, facets_timed_out, suggested_facets>>

ProbeInterrupted == ProbeRaises("interrupted")
ProbeError == ProbeRaises("error")

\* `return suggested_facets`
SuggestReturn ==
    /\ pc = "probe"
    /\ idx > Len(ds.columns)
    /\ SuggestFinish(Return(suggested_facets, <<>>))

NextSuggest ==
    \/ M2MSuggest
    \/ SuggestBegin
    \/ SkipEnabled
    \/ ProbeReturnsRows
    \/ ProbeInterrupted
    \/ ProbeError
    \/ SuggestReturn

SpecSuggest == InitSuggest /\ [][NextSuggest]_vars

----------------------------------------------------------------------------
(* facet_results() of one requested facet, over every small base query and  *)
(* every small list of filter pairs                                          *)

Time1 == <<" ", "1", "0", ":", "0", "0">>

\* What column a of the base query may hold for each type
CellValues(type) ==
    IF type = S_column THEN {VNull, VInt(1), VText(<<"1">>), VInt(2)}
    ELSE IF type = S_date
    THEN {VNull, VText(Date1), VText(Date1 \o Time1), VText(Date2)}
    ELSE IF type = S_array
    THEN {VNull, VArray(<<VInt(1), VInt(1)>>), VArray(<<VInt(1), VInt(2)>>),
          VArray(<<VInt(2), VNull>>)}
    ELSE {VNull}

\* The rows of the middle table j
MiddleRowValues ==
    {MiddleRow(x, y) : x \in {VInt(1), VInt(2), VInt(9)},
                       y \in {VInt(1), VText(<<"1">>), VNull}}

FacetedName(type) == IF type = S_m2m THEN T_destination ELSE ColA

\* The filter pairs a request may hold: those that select a value of the facet
FilterPairs(type) ==
    IF type = S_column THEN {<<ColA, <<"1">>>>, <<ColA, <<"2">>>>}
    ELSE IF type = S_array
    THEN {<<ColA \o S_arraycontains, <<"1">>>>, <<ColA \o S_arraycontains, <<"2">>>>}
    ELSE IF type = S_date THEN {<<ColA \o S__date, Date1>>, <<ColA \o S__date, Date2>>}
    ELSE {<<S_through, Through(T_middle, ColY, VInt(1))>>,
          <<S_through, Through(T_middle, ColY, VNull)>>}

BaseRows(cells) == [k \in 1..Len(cells) |-> Row(VInt(k), cells[k], VNull)]

InitRows ==
    /\ pc = "start"
    /\ strategy \in {S_column, S_array, S_date, S_m2m}
    /\ table = T_base
    /\ metadata_facets = <<>>
    /\ \E filters \in SeqsUpTo(FilterPairs(strategy), MaxFilters) :
        query_string = <<<<FacetKey(strategy), FacetedName(strategy)>>>> \o filters
    /\ \E size \in 1..MaxFacetSize :
        IF strategy = S_m2m
        THEN \E middle \in SeqsUpTo(MiddleRowValues, MaxMiddleRows) :
                ds = [ResultsDs(strategy) EXCEPT
                        !.facet_size = size,
                        !.rows = BaseRows(<<VNull, VNull>>),
                        !.middle_rows = (T_middle :> middle)]
        ELSE \E cells \in SeqsUpTo(CellValues(strategy), MaxRows) :
                ds = [ResultsDs(strategy) EXCEPT
                        !.facet_size = size, !.rows = BaseRows(cells)]
    /\ loaded = [error |-> "", configs |-> <<>>]
    /\ idx = 0
    /\ outcomes = <<>>
    /\ facet_results = <<>>
    /\ facets_timed_out = <<>>
    /\ suggested_facets = <<>>
    /\ returned = NotReturned

\* The steps of facet_results these requests can take
NextRows ==
    \/ FacetResultsBegin
    \/ QueryReturnsRows
    \/ QueryInterrupted
    \/ FacetResultsReturn

SpecRows == InitRows /\ [][NextRows]_vars

----------------------------------------------------------------------------
(* What facet_results() is specified to return *)

Done == pc = "done"
Returned == Done /\ returned.kind = "return"

RowsOutcomes(column) ==
    {k \in 1..Len(outcomes) : outcomes[k].column = column /\ outcomes[k].kind = "rows"}

\* The last query of a facet name that returned rows
LastRows(column) ==
    outcomes[CHOOSE k \in RowsOutcomes(column) : \A n \in RowsOutcomes(column) : n <= k].rows

\* The entries hold, in order, the value and the count of each of the first
\* facet_size rows.
CompleteEntries(entries, rows) ==
    LET n == IF Len(rows) < ds.facet_size THEN Len(rows) ELSE ds.facet_size IN
    /\ Len(entries) = n
    /\ \A m \in 1..n :
        /\ entries[m].count = rows[m].count
        /\ entries[m].value = IF strategy = S_array THEN VText(str(rows[m].value))
                              ELSE rows[m].value

\* Each facet whose query returned rows is in the results with its complete
\* entries, each facet whose query was interrupted is in the timed-out list.
EachFacetReported ==
    \A k \in 1..Len(outcomes) :
        /\ outcomes[k].kind = "rows" =>
            /\ DictHas(returned.results, outcomes[k].column)
            /\ CompleteEntries(DictGet(returned.results, outcomes[k].column).results,
                               LastRows(outcomes[k].column))
        /\ outcomes[k].kind = "interrupted" =>
            InList(outcomes[k].column, returned.timed_out)

\* C1 as stated: whenever facet_results returns, in each of the four
\* strategies, every facet whose query returned rows is in the results with its
\* complete entries and every facet whose query was interrupted is in the
\* timed-out list.
C1_EveryFacetReported == Returned => EachFacetReported

\* Every destination table configured for the many-to-many facet has a middle table.
EveryDestinationHasMiddle ==
    \A k \in 1..Len(loaded.configs) :
        ConfigHasName(loaded.configs[k].config) =>
            MiddleIndex(ds.all_foreign_keys, Incoming,
                        ConfigName(loaded.configs[k].config)) # 0

\* C1 amended: the same for column, array and date, and for m2m when every
\* configured destination table has a middle table.
C1_EveryFacetReportedUnlessNoMiddle ==
    (Returned /\ (strategy = S_m2m /\ ~NoForeignKeys => EveryDestinationHasMiddle))
    => EachFacetReported

\* C1 witness: a returned run in which one facet's query returned rows and the
\* query of another facet was interrupted.
C1_Witness ==
    /\ Returned
    /\ \E k, n \in 1..Len(outcomes) :
        /\ outcomes[k].kind = "rows"
        /\ outcomes[n].kind = "interrupted"
        /\ outcomes[k].column # outcomes[n].column

\* C2: in what facet_results returns, no facet name is both a key of the
\* results and a member of the timed-out list.
C2_ResultsAndTimedOutDisjoint ==
    Returned =>
        \A k \in 1..Len(returned.timed_out) :
            ~DictHas(returned.results, returned.timed_out[k])

ErrorOutcomes == {k \in 1..Len(outcomes) : outcomes[k].kind = "error"}

RECURSIVE InterruptedNames(_)
InterruptedNames(outs) ==
    IF outs = <<>> THEN <<>>
    ELSE (IF Head(outs).kind = "interrupted" THEN <<Head(outs).column>> ELSE <<>>)
         \o InterruptedNames(Tail(outs))

----------------------------------------------------------------------------
(* What the entries of a computed facet are specified to be *)

\* The facet values of the base query and the count of each, from the rows:
\*   column: the non-null values of the column, each with the number of rows
\*   date:   the non-null dates of the column, each with the number of rows
\*   array:  the elements of the arrays, each with the number of its occurrences
\*   m2m:    the destinations of the middle rows of the base rows, each with
\*           the number of distinct base rows
ValueCounts ==
    LET rows == ds.rows
        cell(k) == rows[k][ColA]
    IN  IF strategy = S_column
        THEN [value \in {cell(k) : k \in 1..Len(rows)} \ {VNull} |->
                Cardinality({k \in 1..Len(rows) : cell(k) = value})]
        ELSE IF strategy = S_date
        THEN [value \in {date(cell(k)) : k \in 1..Len(rows)} \ {VNull} |->
                Cardinality({k \in 1..Len(rows) : date(cell(k)) = value})]
        ELSE IF strategy = S_array
        THEN LET places == {<<k, n>> \in (1..Len(rows)) \X (1..2) :
                              cell(k).t = "array" /\ n <= Len(cell(k).v)}
             IN  [value \in {cell(place[1]).v[place[2]] : place \in places} |->
                    Cardinality({place \in places :
                                    cell(place[1]).v[place[2]] = value})]
        ELSE LET middle == ds.middle_rows[T_middle]
                 ids == {rows[k][ColId] : k \in 1..Len(rows)}
                 kept == {k \in 1..Len(middle) : middle[k][ColX] \in ids}
             IN  [value \in {middle[k][ColY] : k \in kept} |->
                    Cardinality({middle[k][ColX] :
                                    k \in {n \in kept : middle[n][ColY] = value}})]

\* The value an entry shows for a facet value
Shown(value) == IF strategy = S_array THEN VText(str(value)) ELSE value

Computed == {facet_results[k][2] : k \in 1..Len(facet_results)}

C7_SelectedIffPairPresent ==
    strategy # S_m2m =>
        \A facet \in Computed :
            \A m \in 1..Len(facet.results) :
                LET entry == facet.results[m]
                    pair == <<SelectionKey(strategy, facet.name), str(entry.value)>>
                    present == InList(pair, query_string)
                IN  /\ entry.selected <=> present
                    /\ entry.toggle_url =
                        IF present
                        THEN path_with_removed_args(query_string, pair[1], pair[2])
                        ELSE path_with_added_args(query_string, pair[1], pair[2])

\* C8: the _through token of (middle table, column, value) has its keys sorted
\* and no whitespace, parsing it yields the triple back, and two rows of one
\* facet with different values never have the same token.
C8_ThroughTokenSeparatesValues ==
    strategy = S_m2m =>
        \A k \in 1..Len(outcomes) :
            outcomes[k].kind = "rows" =>
                LET rows == outcomes[k].rows
                    token(m) == Through(T_middle, ColY, rows[m].value)
                IN  /\ \A m \in 1..Len(rows) :
                        /\ " " \notin SeqToSet(token(m))
                        /\ json_loads(token(m)) =
                            [ok |-> TRUE,
                             obj |-> << <<S_column, ColY>>, <<S_table, T_middle>>,
                                        <<S_value, str(rows[m].value)>> >>]
                    /\ \A m, n \in 1..Len(rows) :
                        rows[m].value # rows[n].value => token(m) # token(n)

----------------------------------------------------------------------------
(* What suggest() is specified to return *)

FailedProbes == {k \in 1..Len(outcomes) : outcomes[k].kind \in {"interrupted", "error"}}

SuggestedNames == {returned.results[k].name : k \in 1..Len(returned.results)}

\* C4: in suggest() of column, array and date, a probe that ends with a
\* timeout or with another query error is swallowed: suggest() returns, the
\* column is not suggested, and every other column not yet enabled is probed.
C4_ProbeFailureSwallowed ==
    (Done /\ strategy # S_m2m /\ FailedProbes # {}) =>
        /\ returned.kind = "return"
        /\ \A k \in FailedProbes : outcomes[k].column \notin SuggestedNames
        /\ \A n \in 1..Len(ds.columns) :
            \/ InList(ds.columns[n], AlreadyEnabled(loaded.configs))
            \/ \E k \in 1..Len(outcomes) : outcomes[k].column = ds.columns[n]

\* The resolved configs of the strategy's type, each in bare-name form or in
\* structured {column: name} form, and the names they resolve to
Resolved == get_configs(strategy, query_string, metadata_facets)
ResolvedWellFormed ==
    /\ Resolved.error = ""
    /\ \A k \in 1..Len(Resolved.configs) : ConfigHasName(Resolved.configs[k].config)
ResolvedNames ==
    {ConfigName(Resolved.configs[k].config) : k \in 1..Len(Resolved.configs)}

\* C5: for every resolved config set, suggest() completes and proposes no
\* column (for m2m: no destination table) that the resolved configs of the
\* strategy's type already hold (here: in runs where no probe ends with a query
\* error).
C5_SuggestSkipsConfigured ==
    (Done /\ ResolvedWellFormed /\ ErrorOutcomes = {}) =>
        /\ returned.kind = "return"
        /\ SuggestedNames \cap ResolvedNames = {}

----------------------------------------------------------------------------
(* What the resolution is specified to return *)

\* The type a query-string key asks a facet of, if it has one of the two forms.
IsFacetKey(key) == key = S_facet \/ StartsWith(key, S_facet_)
FacetKeyType(key) == IF key = S_facet THEN S_column ELSE SliceFrom(key, Len(S_facet_))

ValueConfig(value) ==
    IF StartsWith(value, <<"{">>) THEN json_loads(value).obj ELSE SimpleConfig(value)

RECURSIVE RequestEntries(_, _, _)
RequestEntries(pairs, type, k) ==
    IF k > Len(pairs) THEN <<>>
    ELSE (IF IsFacetKey(pairs[k][1]) /\ FacetKeyType(pairs[k][1]) = type
          THEN <<[source |-> "request", config |-> ValueConfig(pairs[k][2])]>>
          ELSE <<>>) \o RequestEntries(pairs, type, k + 1)

DeclWellFormed(decl) == decl.kind = "str" \/ Len(decl.items) = 1
DeclType(decl) == IF decl.kind = "str" THEN S_column ELSE decl.items[1][1]
DeclConfig(decl) ==
    IF decl.kind = "str" THEN SimpleConfig(decl.s)
    ELSE IF decl.items[1][2].kind = "str" THEN SimpleConfig(decl.items[1][2].s)
    ELSE decl.items[1][2].items

RECURSIVE MetadataEntries(_, _, _)
MetadataEntries(metadata, type, k) ==
    IF k > Len(metadata) THEN <<>>
    ELSE (IF DeclWellFormed(metadata[k]) /\ DeclType(metadata[k]) = type
          THEN <<[source |-> "metadata", config |-> DeclConfig(metadata[k])]>>
          ELSE <<>>) \o MetadataEntries(metadata, type, k + 1)

ExpectedEntries(type) ==
    MetadataEntries(metadata_facets, type, 1) \o RequestEntries(query_string, type, 1)

LoadedEntries(type) ==
    IF DictHas(loaded.facet_configs, type)
    THEN DictGet(loaded.facet_configs, type) ELSE <<>>

LoadedTypes == {loaded.facet_configs[k][1] : k \in 1..Len(loaded.facet_configs)}

AllTypes == {S_column, S_date, S_array, S_m2m}

ValuesParse(pairs) ==
    \A k \in 1..Len(pairs) :
        StartsWith(pairs[k][2], <<"{">>) => json_loads(pairs[k][2]).ok

\* C9: for every query string (here: one whose structured values parse, over
\* metadata of bare column names), load_facet_configs returns, per facet type,
\* the metadata configs followed by one request config for each pair whose key
\* is _facet or _facet_<type>, in query-string order, repeated pairs kept; a
\* pair with any other key produces no config.
C9_RequestConfigsInOrder ==
    (/\ pc = "loaded"
     /\ \A k \in 1..Len(metadata_facets) : metadata_facets[k].kind = "str"
     /\ ValuesParse(query_string))
    => /\ loaded.error = ""
       /\ \A type \in AllTypes \cup LoadedTypes :
            LoadedEntries(type) = ExpectedEntries(type)

\* C10: every well-formed metadata declaration (a bare name, or a single-entry
\* mapping {type: config}) resolves without error to one config of origin
\* metadata under its declared type, and only a mapping that is not single-key
\* fails, with the assertion error (here: for a request without facet keys).
C10_MetadataDeclarationsResolve ==
    (/\ pc = "loaded"
     /\ \A k \in 1..Len(query_string) : ~StartsWith(query_string[k][1], S_facet))
    => IF \A k \in 1..Len(metadata_facets) : DeclWellFormed(metadata_facets[k])
       THEN /\ loaded.error = ""
            /\ \A type \in AllTypes \cup LoadedTypes :
                 LoadedEntries(type) = MetadataEntries(metadata_facets, type, 1)
       ELSE loaded.error = "AssertionError"

----------------------------------------------------------------------------
(* hideable *)

\* The facet names the table metadata declares for the strategy
DeclaredInMetadata(name) ==
    \E k \in 1..Len(loaded.configs) :
        /\ loaded.configs[k].source = "metadata"
        /\ ConfigHasName(loaded.configs[k].config)
        /\ ConfigName(loaded.configs[k].config) = name

\* C11: in each facet result that facet_results returns, hideable is false if
\* and only if the facet is declared in the table metadata, also when the
\* request asks for the same column.
C11_HideableIffNotMetadata ==
    Returned =>
        \A k \in 1..Len(returned.results) :
            LET facet == returned.results[k][2] IN
            (facet.hideable = FALSE) <=> DeclaredInMetadata(facet.name)

----------------------------------------------------------------------------
(* The many-to-many facet over every small foreign-key graph *)

T_second == <<"k">>

\* The column of a table's n-th foreign key
EdgeColumn(n) == ColX \o Digits(n)

\* The outgoing keys of a table whose foreign keys reference these tables
OutgoingTo(targets) ==
    [n \in 1..Len(targets) |-> Edge(targets[n], EdgeColumn(n), ColId)]

\* The incoming keys that the outgoing keys of one table give another
IncomingFrom(other_table, outgoing, target) ==
    LET Hits(fk) == fk.other_table = target
        hits == SelectSeq(outgoing, Hits)
    IN  [n \in 1..Len(hits) |-> Edge(other_table, hits[n].other_column, hits[n].column)]

\* db.get_all_foreign_keys() of a database with the tables t, d, n, j and k, of
\* which j and k have foreign keys; the tables are met in either order.
GraphOf(first, second, j_first) ==
    LET out == (T_middle :> OutgoingTo(first)) @@ (T_second :> OutgoingTo(second))
        order == IF j_first THEN <<T_middle, T_second>> ELSE <<T_second, T_middle>>
        Referencing(target) ==
            IncomingFrom(order[1], out[order[1]], target)
            \o IncomingFrom(order[2], out[order[2]], target)
    IN  [name \in {T_base, T_destination, T_other, T_middle, T_second} |->
            [incoming |-> Referencing(name),
             outgoing |-> IF name \in DOMAIN out THEN out[name] ELSE <<>>]]

\* The foreign keys of the second table
SecondTargets ==
    { <<>>, <<T_base, T_destination>>, <<T_destination, T_base>>, <<T_base, T_other>>,
      <<T_base, T_base>> }

\* The rows of the tables j and k: every foreign key column holds the row's number
GraphMiddleRows ==
    [k \in 1..2 |-> [c \in {EdgeColumn(n) : n \in 1..MaxOutgoing} |-> VInt(k)]]

InitGraph ==
    /\ pc = "start"
    /\ strategy = S_m2m
    /\ table \in {T_base, <<>>}
    /\ metadata_facets = <<>>
    /\ query_string \in SeqsUpTo({FacetKey(S_m2m)} \X {T_destination, T_base, T_other},
                                 MaxRequested)
    /\ \E first \in SeqsUpTo({T_base, T_destination, T_other}, MaxOutgoing),
          second \in SecondTargets, j_first \in BOOLEAN :
            ds = [ResultsDs(S_m2m) EXCEPT
                    !.all_foreign_keys = GraphOf(first, second, j_first),
                    !.middle_rows = (T_middle :> GraphMiddleRows)
                                    @@ (T_second :> GraphMiddleRows)]
    /\ loaded = [error |-> "", configs |-> <<>>]
    /\ idx = 0
    /\ outcomes = <<>>
    /\ facet_results = <<>>
    /\ facets_timed_out = <<>>
    /\ suggested_facets = <<>>
    /\ returned = NotReturned

\* The steps ManyToManyFacet.facet_results can take
NextJunction ==
    \/ FacetResultsBegin
    \/ NoMiddleTable
    \/ AssertionFails
    \/ QueryReturnsRows
    \/ QueryInterrupted
    \/ FacetResultsReturn

SpecJunction == InitGraph /\ [][NextJunction]_vars

\* ManyToManyFacet.suggest
NextJunctionSuggest == M2MSuggest

SpecJunctionSuggest == InitGraph /\ [][NextJunctionSuggest]_vars

\* The tables the two keys of the selected middle table reference
MiddleTargets == {MiddleFks[n].other_table : n \in 1..Len(MiddleFks)}

\* The loop of facet_results is at, or ended at, one of the configs
AtConfig == pc \in {"loop", "done"} /\ idx \in 1..Len(loaded.configs)

\* C12: in ManyToManyFacet.facet_results, for every foreign-key graph and every
\* configured destination table, the base table included, the two keys of a
\* selected middle table reference exactly the base table and the destination
\* table, the three columns are found and the assertion holds; when no table
\* qualifies, empty results and timeouts are returned, never an error.
C12_JunctionTargetsBaseAndDestination ==
    /\ (AtConfig /\ MiddleFound) =>
        /\ MiddleTargets = {table, Column}
        /\ ColumnsAsserted(Columns)
    /\ (AtConfig /\ Done /\ ~MiddleFound) => returned = Return(<<>>, <<>>)
    /\ Done => returned.kind = "return"

\* What suggest is to propose for one incoming key: the table that the other
\* key of a table with exactly two outgoing keys references
Junctions(k) ==
    LET outgoing == ds.all_foreign_keys[Incoming[k].other_table].outgoing IN
    IF Len(outgoing) # 2 THEN {}
    ELSE {outgoing[n].other_table : n \in {m \in 1..2 : outgoing[3 - m].other_table = table}}

Destinations ==
    {t \in UNION {Junctions(k) : k \in 1..Len(Incoming)} :
        <<FacetKey(S_m2m), t>> \notin SeqToSet(get_querystring_pairs(query_string))}

\* C13: ManyToManyFacet.suggest never fails, whatever the graph; a base table
\* with no foreign-key entry yields no suggestion; otherwise the tables
\* suggested are those that the other key of an incoming table with exactly two
\* outgoing keys references, unless ("_facet_m2m", table) is a pair of the
\* request.
C13_SuggestsOtherTargetOfJunction ==
    Done =>
        /\ returned.kind = "return"
        /\ IF NoForeignKeys THEN returned.results = <<>>
           ELSE {returned.results[k].name : k \in 1..Len(returned.results)} = Destinations

----------------------------------------------------------------------------
(* The counts of the array facet *)

\* The elements of the array a row holds in column a
Elements(row) == IF row[ColA].t = "array" THEN SeqToSet(row[ColA].v) ELSE {}

\* The rows of the base query whose array contains the element
RowsContaining(value) == {k \in 1..Len(ds.rows) : value \in Elements(ds.rows[k])}

\* C14: in ArrayFacet.facet_results, whatever arrays the column holds, also
\* arrays that repeat an element, the count of each entry is the number of rows
\* of the base query whose array contains the entry's element.
C14_CountIsRowsContaining ==
    strategy = S_array =>
        \A facet \in Computed :
            \A m \in 1..Len(facet.results) :
                \E value \in UNION {Elements(ds.rows[k]) : k \in 1..Len(ds.rows)} :
                    /\ facet.results[m].value = Shown(value)
                    /\ facet.results[m].count = Cardinality(RowsContaining(value))

----------------------------------------------------------------------------
(* The suggestions of the array facet *)

\* The JSON kinds of the values the base query holds in a column
KindsOf(column) == {json_type(ds.rows[k][column]) : k \in 1..Len(ds.rows)}

\* C15: ArrayFacet.suggest proposes a column it probed if and only if the set
\* of JSON kinds of the column's values is {array} or {array, null}, whatever
\* the order in which the probe returns the kinds.
C15_SuggestedIffArrayKinds ==
    (strategy = S_array /\ Returned) =>
        \A k \in 1..Len(outcomes) :
            outcomes[k].kind = "rows" =>
                (outcomes[k].column \in SuggestedNames
                    <=> KindsOf(outcomes[k].column)
                            \in {{VText(S_array)}, {VText(S_array), VNull}})

====
